---- MODULE Spec2Model ----
(***************************************************************************)
(* Model of the lpass-backed docker credential helper                      *)
(* (src/lastpass/lastpass_linux.go).                                       *)
(*                                                                         *)
(* Text is modelled as a sequence of tokens: a token is either the line    *)
(* terminator NL or an indivisible piece of text (a scheme, a host, a      *)
(* user name, ...).  The empty string is << >>.                            *)
(***************************************************************************)
EXTENDS Integers, Sequences, FiniteSets, TLC

VARIABLES
    lpassInitialized,   \* package variable lpassInitialized
    mutexOwner,         \* holder of initializationMutex, or NoThread
    store,              \* the entries held by the external lpass tool
    pc,                 \* per thread: position in the running operation
    op,                 \* per thread: the public operation being run
    stage,              \* per thread: which runLastPass call of the operation
    arg,                \* per thread: the argument of the operation
    loc,                \* per thread: the operation's local variables
    calls,              \* per thread: subprocesses spawned by the operation
    hist,               \* the last finished operations, oldest first
    nops,               \* number of operations started so far
    nstatus,            \* number of status probes spawned so far
    nlogin,             \* number of login subcommands spawned so far
    nfail,              \* number of session checks that returned an error
    callers,            \* the threads that call the helper in this run
    given,              \* input of a function of the helper applied on its own
    result              \* what the function returned for it

vars == <<lpassInitialized, mutexOwner, store, pc, op, stage, arg, loc, calls,
          hist, nops, nstatus, nlogin, nfail, callers, given, result>>

-----------------------------------------------------------------------------
(* Bounds of the model *)

MaxOps == 2
MaxEntries == 2
\* longest standard output given to the process runner on its own
MaxOutLen == 4

Threads == {"t1", "t2"}
NoThread == "none"

-----------------------------------------------------------------------------
(* Text helpers *)

NL == "\n"

\* const LASTPASS_FOLDER = "Docker Credentials"
LASTPASS_FOLDER == <<"Docker Credentials">>

\* strings.TrimRight(s, "\n"): drops every trailing line terminator
RECURSIVE TrimRight(_)
TrimRight(s) ==
    IF s # << >> /\ s[Len(s)] = NL
    THEN TrimRight(SubSeq(s, 1, Len(s) - 1))
    ELSE s

\* index of the first token of s equal to c, 0 when there is none
RECURSIVE IndexFrom(_, _, _)
IndexFrom(s, c, i) ==
    IF i > Len(s) THEN 0
    ELSE IF s[i] = c THEN i
    ELSE IndexFrom(s, c, i + 1)

Index(s, c) == IndexFrom(s, c, 1)

\* index of the last token of s equal to c, 0 when there is none
RECURSIVE LastIndexFrom(_, _, _)
LastIndexFrom(s, c, i) ==
    IF i < 1 THEN 0
    ELSE IF s[i] = c THEN i
    ELSE LastIndexFrom(s, c, i - 1)

LastIndex(s, c) == LastIndexFrom(s, c, Len(s))

\* strings.Split(s, sep): always at least one element, "" for the empty string
RECURSIVE Split(_, _)
Split(s, sep) ==
    LET i == Index(s, sep) IN
    IF i = 0 THEN << s >>
    ELSE << SubSeq(s, 1, i - 1) >> \o Split(SubSeq(s, i + 1, Len(s)), sep)

-----------------------------------------------------------------------------
(* net/url.Parse and URL.Hostname, as far as domainInURL uses them *)

\* tokens made of letters and dots that begin with a letter: getScheme accepts
\* them as a scheme when a ":" follows
SchemeToks == {"https", "example.com", "other.io"}
\* tokens made of digits only
DigitToks == {"5000"}
SlashToks == {"/", "//"}

RECURSIVE FirstSlashFrom(_, _)
FirstSlashFrom(s, i) ==
    IF i > Len(s) THEN 0
    ELSE IF s[i] \in SlashToks THEN i
    ELSE FirstSlashFrom(s, i + 1)

\* url.getScheme: (scheme, rest, err)
getScheme(u) ==
    IF u = << >> THEN [err |-> FALSE, scheme |-> << >>, rest |-> u]
    ELSE IF u[1] = ":" THEN [err |-> TRUE, scheme |-> << >>, rest |-> << >>]
    ELSE IF Len(u) >= 2 /\ u[1] \in SchemeToks /\ u[2] = ":"
         THEN [err |-> FALSE, scheme |-> << u[1] >>, rest |-> SubSeq(u, 3, Len(u))]
    ELSE [err |-> FALSE, scheme |-> << >>, rest |-> u]

\* url.validOptionalPort: "" or ":" followed by digits
validOptionalPort(port) ==
    \/ port = << >>
    \/ /\ port[1] = ":"
       /\ \A i \in 2..Len(port) : port[i] \in DigitToks

\* url.parseAuthority / url.parseHost: (host, err) of the text between "//"
\* and the next slash
parseAuthority(authority) ==
    LET at == LastIndex(authority, "@")
        hostport == SubSeq(authority, at + 1, Len(authority))
        colon == LastIndex(hostport, ":")
    IN  IF colon # 0 /\ ~validOptionalPort(SubSeq(hostport, colon, Len(hostport)))
        THEN [err |-> TRUE, host |-> << >>]
        ELSE [err |-> FALSE, host |-> hostport]

\* URL.Hostname: the host without a valid port
Hostname(hostport) ==
    LET colon == LastIndex(hostport, ":") IN
    IF colon # 0 /\ validOptionalPort(SubSeq(hostport, colon, Len(hostport)))
    THEN SubSeq(hostport, 1, colon - 1)
    ELSE hostport

\* url.Parse: (Host, err)
urlParse(rawURL) ==
    LET sch == getScheme(rawURL)
        rest == sch.rest
        slash == FirstSlashFrom(rest, 1)
        seg == IF slash = 0 THEN rest ELSE SubSeq(rest, 1, slash - 1)
    IN  IF sch.err THEN [err |-> TRUE, host |-> << >>]
        ELSE IF rest = << >> \/ rest[1] \notin SlashToks
        THEN IF sch.scheme # << >>
             THEN [err |-> FALSE, host |-> << >>]          \* opaque
             ELSE IF Index(seg, ":") # 0
             THEN [err |-> TRUE, host |-> << >>]           \* colon in first segment
             ELSE [err |-> FALSE, host |-> << >>]
        ELSE IF rest[1] = "//"
        THEN LET next == FirstSlashFrom(rest, 2)
                 authority == IF next = 0 THEN SubSeq(rest, 2, Len(rest))
                              ELSE SubSeq(rest, 2, next - 1)
             IN  parseAuthority(authority)
        ELSE [err |-> FALSE, host |-> << >>]

\* func domainInURL(serverURL string) (string, error)
domainInURL(serverURL) ==
    LET u == urlParse(serverURL) IN
    IF u.err THEN [err |-> TRUE, domain |-> << >>]
    ELSE [err |-> FALSE, domain |-> Hostname(u.host)]

-----------------------------------------------------------------------------
(* path.Join and path.Clean for paths that do not begin with a slash *)

\* the elements of a slash-separated path after Clean's rules: "" and "."
\* are dropped, ".." removes the element before it (or stays, at the front)
RECURSIVE CleanElems(_, _)
CleanElems(elems, acc) ==
    IF elems = << >> THEN acc
    ELSE LET e == Head(elems)
             r == Tail(elems)
         IN  IF e = << >> \/ e = <<".">> THEN CleanElems(r, acc)
             ELSE IF e = <<"..">>
             THEN IF acc # << >> /\ acc[Len(acc)] # <<"..">>
                  THEN CleanElems(r, SubSeq(acc, 1, Len(acc) - 1))
                  ELSE CleanElems(r, Append(acc, e))
             ELSE CleanElems(r, Append(acc, e))

RECURSIVE JoinElems(_)
JoinElems(elems) ==
    IF elems = << >> THEN << >>
    ELSE IF Len(elems) = 1 THEN elems[1]
    ELSE elems[1] \o <<"/">> \o JoinElems(Tail(elems))

pathClean(p) ==
    LET out == JoinElems(CleanElems(Split(p, "/"), << >>)) IN
    IF out = << >> THEN <<".">> ELSE out

\* path.Join(a, b): the non-empty arguments joined by "/", then cleaned
pathJoin(a, b) ==
    IF a = << >> /\ b = << >> THEN << >>
    ELSE IF b = << >> THEN pathClean(a)
    ELSE IF a = << >> THEN pathClean(b)
    ELSE pathClean(a \o <<"/">> \o b)

\* path.Join(LASTPASS_FOLDER, domain)
EntryPath(domain) == pathJoin(LASTPASS_FOLDER, domain)

\* fmt.Sprintf("URL: %s\nUsername: %s\nPassword: %s\n", ...)
Details(creds) ==
    <<"URL: ">> \o creds.ServerURL \o <<NL>> \o
    <<"Username: ">> \o creds.Username \o <<NL>> \o
    <<"Password: ">> \o creds.Secret \o <<NL>>

-----------------------------------------------------------------------------
(* The external lpass tool, seen through its command line.  An entry has  *)
(* an id, a full name (folder/name) and the three fields the helper uses.  *)

IdStr(i) == << ToString(i) >>

\* the value of the last "Label: value" line of the text piped to add / edit
RECURSIVE FieldOfLines(_, _, _)
FieldOfLines(lines, label, acc) ==
    IF lines = << >> THEN acc
    ELSE LET l == Head(lines) IN
         IF l # << >> /\ l[1] = label
         THEN FieldOfLines(Tail(lines), label, Tail(l))
         ELSE FieldOfLines(Tail(lines), label, acc)

FieldOf(text, label) == FieldOfLines(Split(text, NL), label, << >>)

\* entries a name or id given on the command line matches
Lookup(st, name) == {e \in st : IdStr(e.id) = name \/ e.name = name}

\* entries that live in the folder
InFolder(st, folder) ==
    {e \in st : /\ Len(e.name) > Len(folder) + 1
                /\ SubSeq(e.name, 1, Len(folder) + 1) = folder \o <<"/">>}

FreeIds(st) == (1..MaxEntries) \ {e.id : e \in st}

MinOf(S) == CHOOSE x \in S : \A y \in S : x <= y

NewEntry(st, name, text) ==
    [id |-> MinOf(FreeIds(st)), name |-> name,
     url |-> FieldOf(text, "URL: "),
     user |-> FieldOf(text, "Username: "),
     pass |-> FieldOf(text, "Password: ")]

\* ids of the entries of S in ascending order, one per line
RECURSIVE IdLines(_)
IdLines(S) ==
    IF S = {} THEN << >>
    ELSE LET e == CHOOSE x \in S : \A y \in S : x.id <= y.id IN
         IdStr(e.id) \o <<NL>> \o IdLines(S \ {e})

ToolFail(st, why) == [err |-> why, stdout |-> << >>, st |-> st]
ToolOk(st, out) == [err |-> "nil", stdout |-> out, st |-> st]

\* one run of `lpass <cmd> <target>` with the given standard input:
\* exit status, standard output and the tool's entries afterwards
LpassShow(st, field, target) ==
    LET m == Lookup(st, target) IN
    IF m = {} THEN ToolFail(st, "tool: not found")
    ELSE IF Cardinality(m) > 1 THEN ToolFail(st, "tool: multiple matches")
    ELSE LET e == CHOOSE x \in m : TRUE IN
         ToolOk(st, (CASE field = "--user" -> e.user
                       [] field = "--pass" -> e.pass
                       [] OTHER -> e.url) \o <<NL>>)

LpassAdd(st, target, text) ==
    IF FreeIds(st) = {} THEN ToolFail(st, "tool: full")
    ELSE ToolOk(st \cup {NewEntry(st, target, text)}, << >>)

LpassEdit(st, target, text) ==
    LET m == Lookup(st, target) IN
    IF m = {} THEN LpassAdd(st, target, text)
    ELSE IF Cardinality(m) > 1 THEN ToolFail(st, "tool: multiple matches")
    ELSE LET e == CHOOSE x \in m : TRUE IN
         ToolOk((st \ {e}) \cup
                {[e EXCEPT !.url = FieldOf(text, "URL: "),
                           !.user = FieldOf(text, "Username: "),
                           !.pass = FieldOf(text, "Password: ")]}, << >>)

LpassRm(st, target) ==
    LET m == Lookup(st, target) IN
    IF m = {} THEN ToolFail(st, "tool: not found")
    ELSE IF Cardinality(m) > 1 THEN ToolFail(st, "tool: multiple matches")
    ELSE ToolOk(st \ m, << >>)

LpassLs(st, folder) == ToolOk(st, IdLines(InFolder(st, folder)))

Lpass(st, cmd, target, text) ==
    CASE cmd = "show --user" -> LpassShow(st, "--user", target)
      [] cmd = "show --pass" -> LpassShow(st, "--pass", target)
      [] cmd = "show --url" -> LpassShow(st, "--url", target)
      [] cmd = "add" -> LpassAdd(st, target, text)
      [] cmd = "edit" -> LpassEdit(st, target, text)
      [] cmd = "rm" -> LpassRm(st, target)
      [] OTHER -> LpassLs(st, target)

\* func runLastPassHelper: the error on a failed run, else the trimmed output
runLastPassHelper(st, cmd, target, text, fault) ==
    LET r == IF fault THEN ToolFail(st, "tool: fault") ELSE Lpass(st, cmd, target, text) IN
    IF r.err # "nil" THEN [err |-> r.err, out |-> << >>, st |-> r.st]
    ELSE [err |-> "nil", out |-> TrimRight(r.stdout), st |-> r.st]

-----------------------------------------------------------------------------
(* Requests the callers can make, and what lpass holds at process start *)

U_EMPTY == << >>
U_LOGIN == <<"https", ":", "//", "example.com", "/", "login">>
U_HOST == <<"https", ":", "//", "example.com">>
U_PORT == <<"https", ":", "//", "other.io", ":", "5000">>
U_BAD == <<":", "//", "example.com">>
\* no scheme and no "//": all of it is a path, the host is empty
U_NOHOST == <<"example.com", "/", "login">>

\* *credentials.Credentials; isNil marks the nil pointer
Creds(u, n, s) == [isNil |-> FALSE, ServerURL |-> u, Username |-> n, Secret |-> s]
NilCreds == [isNil |-> TRUE, ServerURL |-> << >>, Username |-> << >>, Secret |-> << >>]
UrlArg(u) == Creds(u, << >>, << >>)
NoArg == UrlArg(<< >>)

Req(o, a) == [op |-> o, arg |-> a]

AllURLs == {U_EMPTY, U_HOST, U_PORT, U_BAD, U_NOHOST}
AllCreds == {NilCreds,
             Creds(U_LOGIN, <<"alice">>, <<"s3cr3t">>),
             Creds(U_LOGIN, <<"bob">>, <<"hunter2">>),
             Creds(U_PORT, <<"alice">>, <<"s3cr3t">>),
             Creds(U_EMPTY, <<"alice">>, <<"s3cr3t">>),
             Creds(U_BAD, <<"alice">>, <<"s3cr3t">>)}

AllRequests ==
    {Req("Get", UrlArg(u)) : u \in AllURLs} \cup
    {Req("Delete", UrlArg(u)) : u \in AllURLs} \cup
    {Req("Add", c) : c \in AllCreds} \cup
    {Req("List", NoArg)}

\* the requests of the runs with two concurrent callers
ConcRequests ==
    {Req("Get", UrlArg(U_HOST)), Req("Delete", UrlArg(U_HOST)),
     Req("Add", Creds(U_LOGIN, <<"alice">>, <<"s3cr3t">>)), Req("List", NoArg)}

Entry(id, host, u, n, s) ==
    [id |-> id, name |-> LASTPASS_FOLDER \o <<"/">> \o host, url |-> u, user |-> n, pass |-> s]

\* nothing; one entry; two entries of the folder that carry the same URL
InitStores ==
    {{},
     {Entry(1, <<"example.com">>, U_LOGIN, <<"alice">>, <<"s3cr3t">>)},
     {Entry(1, <<"example.com">>, U_LOGIN, <<"alice">>, <<"s3cr3t">>),
      Entry(2, <<"other.io">>, U_LOGIN, <<"bob">>, <<"hunter2">>)}}

-----------------------------------------------------------------------------
(* The helper's operations *)

EmptyMap == [k \in {} |-> << >>]
NoLoc == [entryPath |-> << >>, username |-> << >>, entries |-> << >>, i |-> 0,
          serverURL |-> << >>, resp |-> EmptyMap, init0 |-> FALSE]

Ret(err, username, secret, hasResp, resp) ==
    [err |-> err, username |-> username, secret |-> secret,
     hasResp |-> hasResp, resp |-> resp]
ErrRet(err) == Ret(err, << >>, << >>, FALSE, EmptyMap)

\* mutant of GetCheck: the test for the empty URL is missing
GetCheckNoEmptyTest(serverURL) ==
    IF domainInURL(serverURL).err THEN "parse" ELSE "nil"

\* Get, lines 94-101: the error Get returns before it calls lpass, if any
GetCheck(serverURL) ==
    IF serverURL = << >> THEN "missing server url"
    ELSE IF domainInURL(serverURL).err THEN "parse"
    ELSE "nil"

\* Add, lines 118-125
AddCheck(creds) ==
    IF creds.isNil THEN "missing credentials"
    ELSE IF domainInURL(creds.ServerURL).err THEN "parse"
    ELSE "nil"

\* Delete, lines 143-150
DeleteCheck(serverURL) ==
    IF serverURL = << >> THEN "missing server url"
    ELSE IF domainInURL(serverURL).err THEN "parse"
    ELSE "nil"

\* Add, lines 131-137: the subcommand Add runs after its Get returned err
AddBranch(err) == IF err # "nil" THEN "edit" ELSE "add"

\* the lpass command line of the runLastPass call a thread is at
StageCmd(t) ==
    LET path == loc[t].entryPath
        entryID == loc[t].entries[loc[t].i]
    IN  CASE stage[t] = "show_user" -> [cmd |-> "show --user", target |-> path, text |-> << >>]
          [] stage[t] = "show_pass" -> [cmd |-> "show --pass", target |-> path, text |-> << >>]
          [] stage[t] = "edit" -> [cmd |-> "edit", target |-> path, text |-> Details(arg[t])]
          [] stage[t] = "add" -> [cmd |-> "add", target |-> path, text |-> Details(arg[t])]
          [] stage[t] = "rm" -> [cmd |-> "rm", target |-> path, text |-> << >>]
          [] stage[t] = "ls" -> [cmd |-> "ls", target |-> LASTPASS_FOLDER, text |-> << >>]
          [] stage[t] = "l_url" -> [cmd |-> "show --url", target |-> entryID, text |-> << >>]
          [] OTHER -> [cmd |-> "show --user", target |-> entryID, text |-> << >>]

\* the record of a subprocess: the runLastPass call that spawned it, its
\* command line, how it ended ("ok", "fail" for a first status probe that
\* leads to the login, else the error its caller returns) and what the
\* process runner returned for it
Spawned(cs, st, cmd, target) ==
    Append(cs, [stage |-> st, cmd |-> cmd, target |-> target, res |-> "run", out |-> << >>])
Exited(cs, res, out) == [cs EXCEPT ![Len(cs)].res = res, ![Len(cs)].out = out]

\* what is remembered of a finished operation once another one has finished
\* after it: whether it was an Add that succeeded, and then its credential
Older(x) ==
    IF x.op = "Add" /\ x.ret.err = "nil"
    THEN [added |-> TRUE, arg |-> x.arg]
    ELSE [added |-> FALSE, arg |-> NoArg]

\* the last finished operation, preceded by the one before it
Push(h, x) == IF h = << >> THEN << x >> ELSE << Older(h[Len(h)]), x >>

\* the public operation o(a) of thread t returns r; init0 and init1 are the
\* session flag when it was called and when it returns
Return(t, o, a, r, cs, init0, init1) ==
    /\ pc' = [pc EXCEPT ![t] = "idle"]
    /\ op' = [op EXCEPT ![t] = "none"]
    /\ arg' = [arg EXCEPT ![t] = NoArg]
    /\ stage' = [stage EXCEPT ![t] = "none"]
    /\ loc' = [loc EXCEPT ![t] = NoLoc]
    /\ calls' = [calls EXCEPT ![t] = << >>]
    /\ hist' = Push(hist, [thread |-> t, op |-> o, arg |-> a, ret |-> r, calls |-> cs,
                           init0 |-> init0, init1 |-> init1])

\* the operation o(a) of thread t goes on to the runLastPass call st
Call(t, o, a, st, l, cs) ==
    /\ pc' = [pc EXCEPT ![t] = "lock"]
    /\ op' = [op EXCEPT ![t] = o]
    /\ arg' = [arg EXCEPT ![t] = a]
    /\ stage' = [stage EXCEPT ![t] = st]
    /\ loc' = [loc EXCEPT ![t] = l]
    /\ calls' = [calls EXCEPT ![t] = cs]
    /\ hist' = hist

\* Get returns (username, secret, err): to the caller of the helper, or to
\* Add, line 131, which goes on to its own command
GetReturns(t, o, a, l, username, secret, err, cs) ==
    IF o = "Get"
    THEN Return(t, o, a, Ret(err, username, secret, FALSE, EmptyMap), cs,
                l.init0, lpassInitialized)
    ELSE Call(t, o, a, AddBranch(err), l, cs)

\* mutant of GetResume: a failed user name lookup does not end Get
GetResumeKeepsGoing(t, out, err, cs) ==
    LET o == op[t]
        a == arg[t]
        l == loc[t]
    IN  IF stage[t] = "show_user"
        THEN Call(t, o, a, "show_pass", [l EXCEPT !.username = out], cs)
        ELSE IF err # "nil" THEN GetReturns(t, o, a, l, << >>, << >>, err, cs)
             ELSE GetReturns(t, o, a, l, l.username, out, "nil", cs)

\* Get, lines 103-113: a runLastPass call of Get returned (out, err)
GetResume(t, out, err, cs) ==
    LET o == op[t]
        a == arg[t]
        l == loc[t]
    IN  IF stage[t] = "show_user"
        THEN IF err # "nil" THEN GetReturns(t, o, a, l, << >>, << >>, err, cs)
             ELSE Call(t, o, a, "show_pass", [l EXCEPT !.username = out], cs)
        ELSE IF err # "nil" THEN GetReturns(t, o, a, l, << >>, << >>, err, cs)
             ELSE GetReturns(t, o, a, l, l.username, out, "nil", cs)

\* mutant of AddResume: Add returns nil whatever its edit or add call returned
AddResumeSwallows(t, out, err, cs) ==
    Return(t, op[t], arg[t], ErrRet("nil"), cs, loc[t].init0, lpassInitialized)

\* Add, lines 133-138: the edit or add call returned err
AddResume(t, out, err, cs) ==
    Return(t, op[t], arg[t], ErrRet(err), cs, loc[t].init0, lpassInitialized)

\* mutant of DeleteResume: an rm that finds no entry counts as a success
DeleteResumeMasksNotFound(t, out, err, cs) ==
    Return(t, op[t], arg[t], ErrRet(IF err = "tool: not found" THEN "nil" ELSE err), cs,
           loc[t].init0, lpassInitialized)

\* Delete, lines 153-154: the rm call returned err
DeleteResume(t, out, err, cs) ==
    Return(t, op[t], arg[t], ErrRet(err), cs, loc[t].init0, lpassInitialized)

\* mutant of ListResume: an entry whose show fails is left out of the result
ListResumeSkipping(t, out, err, cs) ==
    LET o == op[t]
        a == arg[t]
        l == loc[t]
        Fail == Return(t, o, a, ErrRet(err), cs, l.init0, lpassInitialized)
        Skip == IF l.i = Len(l.entries)
                THEN Return(t, o, a, Ret("nil", << >>, << >>, TRUE, l.resp), cs,
                            l.init0, lpassInitialized)
                ELSE Call(t, o, a, "l_url", [l EXCEPT !.i = l.i + 1], cs)
    IN  CASE stage[t] = "ls" ->
               IF err # "nil" THEN Fail
               ELSE Call(t, o, a, "l_url",
                         [l EXCEPT !.entries = Split(out, NL), !.i = 1], cs)
          [] stage[t] = "l_url" ->
               IF err # "nil" THEN Skip
               ELSE Call(t, o, a, "l_user", [l EXCEPT !.serverURL = out], cs)
          [] OTHER ->
               IF err # "nil" THEN Skip
               ELSE LET resp == [k \in (DOMAIN l.resp) \cup {l.serverURL} |->
                                   IF k = l.serverURL THEN out ELSE l.resp[k]]
                    IN  IF l.i = Len(l.entries)
                        THEN Return(t, o, a, Ret("nil", << >>, << >>, TRUE, resp), cs,
                                    l.init0, lpassInitialized)
                        ELSE Call(t, o, a, "l_url",
                                  [l EXCEPT !.i = l.i + 1, !.resp = resp], cs)

\* List, lines 159-184: a runLastPass call of List returned (out, err)
ListResume(t, out, err, cs) ==
    LET o == op[t]
        a == arg[t]
        l == loc[t]
        Fail == Return(t, o, a, ErrRet(err), cs, l.init0, lpassInitialized)
    IN  CASE stage[t] = "ls" ->
               IF err # "nil" THEN Fail
               ELSE Call(t, o, a, "l_url",
                         [l EXCEPT !.entries = Split(out, NL), !.i = 1], cs)
          [] stage[t] = "l_url" ->
               IF err # "nil" THEN Fail
               ELSE Call(t, o, a, "l_user", [l EXCEPT !.serverURL = out], cs)
          [] OTHER ->
               IF err # "nil" THEN Fail
               ELSE LET resp == [k \in (DOMAIN l.resp) \cup {l.serverURL} |->
                                   IF k = l.serverURL THEN out ELSE l.resp[k]]
                    IN  IF l.i = Len(l.entries)
                        THEN Return(t, o, a, Ret("nil", << >>, << >>, TRUE, resp), cs,
                                    l.init0, lpassInitialized)
                        ELSE Call(t, o, a, "l_url",
                                  [l EXCEPT !.i = l.i + 1, !.resp = resp], cs)

\* runLastPass returned (out, err) to the operation of thread t
Resume(t, out, err, cs) ==
    CASE stage[t] \in {"show_user", "show_pass"} -> GetResume(t, out, err, cs)
      [] stage[t] \in {"edit", "add"} -> AddResume(t, out, err, cs)
      [] stage[t] = "rm" -> DeleteResume(t, out, err, cs)
      [] OTHER -> ListResume(t, out, err, cs)

\* mutant of CheckFailed: runLastPass drops the error and runs the command
CheckFailedIgnored(t, err, cs) ==
    /\ pc' = [pc EXCEPT ![t] = "run"]
    /\ calls' = [calls EXCEPT ![t] =
                   Spawned(cs, stage[t], StageCmd(t).cmd, StageCmd(t).target)]
    /\ UNCHANGED <<op, arg, stage, loc, hist>>

\* runLastPass, lines 78-80: checkInitialized returned err, return it
CheckFailed(t, err, cs) == Resume(t, << >>, err, cs)

Start(running, stores) ==
    /\ lpassInitialized = FALSE
    /\ mutexOwner = NoThread
    /\ store \in stores
    /\ callers = running
    /\ pc = [t \in Threads |-> IF t \in running THEN "idle" ELSE "off"]
    /\ op = [t \in Threads |-> "none"]
    /\ stage = [t \in Threads |-> "none"]
    /\ arg = [t \in Threads |-> NoArg]
    /\ loc = [t \in Threads |-> NoLoc]
    /\ calls = [t \in Threads |-> << >>]
    /\ hist = << >>
    /\ nops = 0
    /\ nstatus = 0
    /\ nlogin = 0
    /\ nfail = 0

NoInput == [f |-> "none"]
NoResult == [f |-> "none"]
NotAlone == given = NoInput /\ result = NoResult

\* one caller
Init == Start({"t1"}, InitStores) /\ NotAlone

\* two concurrent callers
InitConc == Start(Threads, {{}}) /\ NotAlone

\* the requests of the run
Requests == IF callers = Threads THEN ConcRequests ELSE AllRequests

CanBegin(t) == pc[t] = "idle" /\ nops < MaxOps

Begun == /\ nops' = nops + 1
         /\ UNCHANGED <<lpassInitialized, mutexOwner, store, callers, given, result,
                        nstatus, nlogin, nfail>>

\* the locals of an operation on serverURL at its first runLastPass: the
\* entry path, path.Join(LASTPASS_FOLDER, domain), and the flag at the call
Here(serverURL) ==
    [NoLoc EXCEPT !.entryPath = EntryPath(domainInURL(serverURL).domain),
                  !.init0 = lpassInitialized]
HereList == [NoLoc EXCEPT !.init0 = lpassInitialized]

\* func (s LastPass) Get(serverURL string), up to its first runLastPass
BeginGet(t) ==
    /\ CanBegin(t)
    /\ \E r \in Requests :
         /\ r.op = "Get"
         /\ LET err == GetCheck(r.arg.ServerURL) IN
            IF err # "nil"
            THEN Return(t, "Get", r.arg, ErrRet(err), << >>, lpassInitialized, lpassInitialized)
            ELSE Call(t, "Get", r.arg, "show_user", Here(r.arg.ServerURL), << >>)
    /\ Begun

\* func (s LastPass) Add(creds), up to its first runLastPass: the one of its
\* call of Get or, when that Get returns at once, the one of its own command
BeginAdd(t) ==
    /\ CanBegin(t)
    /\ \E r \in Requests :
         /\ r.op = "Add"
         /\ LET err == AddCheck(r.arg) IN
            IF err # "nil"
            THEN Return(t, "Add", r.arg, ErrRet(err), << >>, lpassInitialized, lpassInitialized)
            ELSE LET gerr == GetCheck(r.arg.ServerURL) IN
                 IF gerr # "nil" THEN Call(t, "Add", r.arg, AddBranch(gerr), Here(r.arg.ServerURL), << >>)
                 ELSE Call(t, "Add", r.arg, "show_user", Here(r.arg.ServerURL), << >>)
    /\ Begun

\* func (s LastPass) Delete(serverURL string), up to its runLastPass
BeginDelete(t) ==
    /\ CanBegin(t)
    /\ \E r \in Requests :
         /\ r.op = "Delete"
         /\ LET err == DeleteCheck(r.arg.ServerURL) IN
            IF err # "nil"
            THEN Return(t, "Delete", r.arg, ErrRet(err), << >>, lpassInitialized, lpassInitialized)
            ELSE Call(t, "Delete", r.arg, "rm", Here(r.arg.ServerURL), << >>)
    /\ Begun

\* func (s LastPass) List(), up to its first runLastPass
BeginList(t) ==
    /\ CanBegin(t)
    /\ \E r \in Requests :
         /\ r.op = "List"
         /\ Call(t, "List", r.arg, "ls", HereList, << >>)
    /\ Begun

\* mutant of MutexFree: Lock() never waits
MutexFreeAlways == TRUE

\* checkInitialized, line 50: whether Lock() returns
MutexFree == mutexOwner = NoThread

\* runLastPass -> checkInitialized, line 50: Lock() returns
Lock(t) ==
    /\ pc[t] = "lock"
    /\ MutexFree
    /\ mutexOwner' = t
    /\ pc' = [pc EXCEPT ![t] = "locked"]
    /\ UNCHANGED <<lpassInitialized, store, callers, given, result, op, stage, arg, loc, calls, hist,
                   nops, nstatus, nlogin, nfail>>

\* mutant of FlagTest: the lpass command is started without a look at the flag
FlagTestSkipsCheck(t) ==
    /\ pc[t] = "locked"
    /\ mutexOwner' = NoThread
    /\ pc' = [pc EXCEPT ![t] = "run"]
    /\ calls' = [calls EXCEPT ![t] =
                   Spawned(@, stage[t], StageCmd(t).cmd, StageCmd(t).target)]
    /\ UNCHANGED <<lpassInitialized, store, callers, given, result, op, stage, arg, loc,
                   hist, nops, nstatus, nlogin, nfail>>

\* mutant of FlagTest: the guard is still held while the lpass command runs
FlagTestHoldsGuard(t) ==
    /\ pc[t] = "locked"
    /\ IF lpassInitialized
       THEN /\ mutexOwner' = mutexOwner
            /\ pc' = [pc EXCEPT ![t] = "run"]
            /\ calls' = [calls EXCEPT ![t] =
                           Spawned(@, stage[t], StageCmd(t).cmd, StageCmd(t).target)]
            /\ nstatus' = nstatus
       ELSE /\ mutexOwner' = mutexOwner
            /\ pc' = [pc EXCEPT ![t] = "status1"]
            /\ calls' = [calls EXCEPT ![t] = Spawned(@, stage[t], "status", << >>)]
            /\ nstatus' = nstatus + 1
    /\ UNCHANGED <<lpassInitialized, store, callers, given, result, op, stage, arg, loc,
                   hist, nops, nlogin, nfail>>

\* checkInitialized, lines 52-55, and runLastPass, line 81: with the flag set
\* return nil (the deferred Unlock runs) and start the lpass command, else
\* start the first status probe
FlagTest(t) ==
    /\ pc[t] = "locked"
    /\ IF lpassInitialized
       THEN /\ mutexOwner' = NoThread
            /\ pc' = [pc EXCEPT ![t] = "run"]
            /\ calls' = [calls EXCEPT ![t] =
                           Spawned(@, stage[t], StageCmd(t).cmd, StageCmd(t).target)]
            /\ nstatus' = nstatus
       ELSE /\ mutexOwner' = mutexOwner
            /\ pc' = [pc EXCEPT ![t] = "status1"]
            /\ calls' = [calls EXCEPT ![t] = Spawned(@, stage[t], "status", << >>)]
            /\ nstatus' = nstatus + 1
    /\ UNCHANGED <<lpassInitialized, store, callers, given, result, op, stage, arg, loc, hist, nops,
                   nlogin, nfail>>

\* checkInitialized, lines 55-62: the first status probe exits; on failure
\* read the user name and start `lpass login`, else start the second probe
Status1Done(t) ==
    /\ pc[t] = "status1"
    /\ \E ok \in BOOLEAN :
         IF ok
         THEN /\ pc' = [pc EXCEPT ![t] = "status2"]
              /\ calls' = [calls EXCEPT ![t] =
                             Spawned(Exited(@, "ok", << >>), stage[t], "status", << >>)]
              /\ nstatus' = nstatus + 1
              /\ nlogin' = nlogin
         ELSE /\ pc' = [pc EXCEPT ![t] = "login"]
              /\ calls' = [calls EXCEPT ![t] =
                             Spawned(Exited(@, "fail", << >>), stage[t], "login", << >>)]
              /\ nlogin' = nlogin + 1
              /\ nstatus' = nstatus
    /\ UNCHANGED <<lpassInitialized, mutexOwner, store, callers, given, result, op, stage, arg, loc, hist,
                   nops, nfail>>

\* mutant of LoginDone: the guard stays locked when the login failed
LoginDoneKeepsGuard(t) ==
    /\ pc[t] = "login"
    /\ \E ok \in BOOLEAN :
         IF ok
         THEN /\ pc' = [pc EXCEPT ![t] = "status2"]
              /\ calls' = [calls EXCEPT ![t] =
                             Spawned(Exited(@, "ok", << >>), stage[t], "status", << >>)]
              /\ nstatus' = nstatus + 1
              /\ UNCHANGED <<mutexOwner, op, stage, arg, loc, hist, nfail>>
         ELSE /\ mutexOwner' = mutexOwner
              /\ CheckFailed(t, "login failed", Exited(calls[t], "login failed", << >>))
              /\ nstatus' = nstatus
              /\ nfail' = nfail + 1
    /\ UNCHANGED <<lpassInitialized, store, callers, given, result, nops, nlogin>>

\* checkInitialized, lines 62-69: `lpass login` exits; on failure return the
\* error (the deferred Unlock runs), else start the second status probe
LoginDone(t) ==
    /\ pc[t] = "login"
    /\ \E ok \in BOOLEAN :
         IF ok
         THEN /\ pc' = [pc EXCEPT ![t] = "status2"]
              /\ calls' = [calls EXCEPT ![t] =
                             Spawned(Exited(@, "ok", << >>), stage[t], "status", << >>)]
              /\ nstatus' = nstatus + 1
              /\ UNCHANGED <<mutexOwner, op, stage, arg, loc, hist, nfail>>
         ELSE /\ mutexOwner' = NoThread
              /\ CheckFailed(t, "login failed", Exited(calls[t], "login failed", << >>))
              /\ nstatus' = nstatus
              /\ nfail' = nfail + 1
    /\ UNCHANGED <<lpassInitialized, store, callers, given, result, nops, nlogin>>

\* mutant of Status2Done: the flag is set whatever the second probe returned
Status2DoneSetsFlagAnyway(t) ==
    /\ pc[t] = "status2"
    /\ mutexOwner' = NoThread
    /\ \E ok \in BOOLEAN :
         IF ok
         THEN /\ lpassInitialized' = TRUE
              /\ pc' = [pc EXCEPT ![t] = "run"]
              /\ calls' = [calls EXCEPT ![t] =
                             Spawned(Exited(@, "ok", << >>), stage[t],
                                     StageCmd(t).cmd, StageCmd(t).target)]
              /\ UNCHANGED <<op, stage, arg, loc, hist, nfail>>
         ELSE /\ lpassInitialized' = TRUE
              /\ CheckFailed(t, "not initialized", Exited(calls[t], "not initialized", << >>))
              /\ nfail' = nfail + 1
    /\ UNCHANGED <<store, callers, given, result, nops, nstatus, nlogin>>

\* mutant of Status2Done: the guard stays locked when the second probe failed
Status2DoneKeepsGuard(t) ==
    /\ pc[t] = "status2"
    /\ \E ok \in BOOLEAN :
         IF ok
         THEN /\ mutexOwner' = NoThread
              /\ lpassInitialized' = TRUE
              /\ pc' = [pc EXCEPT ![t] = "run"]
              /\ calls' = [calls EXCEPT ![t] =
                             Spawned(Exited(@, "ok", << >>), stage[t],
                                     StageCmd(t).cmd, StageCmd(t).target)]
              /\ UNCHANGED <<op, stage, arg, loc, hist, nfail>>
         ELSE /\ mutexOwner' = mutexOwner
              /\ lpassInitialized' = lpassInitialized
              /\ CheckFailed(t, "not initialized", Exited(calls[t], "not initialized", << >>))
              /\ nfail' = nfail + 1
    /\ UNCHANGED <<store, callers, given, result, nops, nstatus, nlogin>>

\* checkInitialized, lines 69-74, and runLastPass, line 81: the second status
\* probe exits; on success set the flag, release the mutex, start the command
Status2Done(t) ==
    /\ pc[t] = "status2"
    /\ mutexOwner' = NoThread
    /\ \E ok \in BOOLEAN :
         IF ok
         THEN /\ lpassInitialized' = TRUE
              /\ pc' = [pc EXCEPT ![t] = "run"]
              /\ calls' = [calls EXCEPT ![t] =
                             Spawned(Exited(@, "ok", << >>), stage[t],
                                     StageCmd(t).cmd, StageCmd(t).target)]
              /\ UNCHANGED <<op, stage, arg, loc, hist, nfail>>
         ELSE /\ lpassInitialized' = lpassInitialized
              /\ CheckFailed(t, "not initialized", Exited(calls[t], "not initialized", << >>))
              /\ nfail' = nfail + 1
    /\ UNCHANGED <<store, callers, given, result, nops, nstatus, nlogin>>

\* runLastPass, line 81: the lpass command exits
RunDone(t) ==
    /\ pc[t] = "run"
    /\ \E ok \in BOOLEAN :
         LET c == StageCmd(t)
             r == runLastPassHelper(store, c.cmd, c.target, c.text, ~ok)
         IN  /\ store' = r.st
             /\ Resume(t, r.out, r.err,
                       Exited(calls[t], IF r.err = "nil" THEN "ok" ELSE r.err, r.out))
    /\ UNCHANGED <<lpassInitialized, mutexOwner, callers, given, result, nops, nstatus,
                   nlogin, nfail>>

Next ==
    \E t \in Threads :
        \/ BeginGet(t)
        \/ BeginAdd(t)
        \/ BeginDelete(t)
        \/ BeginList(t)
        \/ Lock(t)
        \/ FlagTest(t)
        \/ Status1Done(t)
        \/ LoginDone(t)
        \/ Status2Done(t)
        \/ RunDone(t)

Spec == Init /\ [][Next]_vars

SpecConc == InitConc /\ [][Next]_vars

\* a step of thread t inside its operation
Proceed(t) ==
    \/ Lock(t)
    \/ FlagTest(t)
    \/ Status1Done(t)
    \/ LoginDone(t)
    \/ Status2Done(t)
    \/ RunDone(t)

\* every subprocess and the read of the user name end, a thread that can
\* go on does, and a thread that waits in Lock() gets the mutex once it
\* stays free
Fairness == \A t \in Threads : WF_vars(Proceed(t))

\* two concurrent callers, with the progress the scheduler gives them
SpecLive == InitConc /\ [][Next]_vars /\ Fairness

-----------------------------------------------------------------------------
(* The pure functions of the helper, applied on their own to inputs drawn  *)
(* from bounded sets                                                       *)

\* texts of at most n tokens over the tokens of T
RECURSIVE TextsUpTo(_, _)
TextsUpTo(T, n) ==
    IF n = 0 THEN {<< >>}
    ELSE LET shorter == TextsUpTo(T, n - 1) IN
         shorter \cup {Append(x, c) : x \in shorter, c \in T}

\* standard outputs of a subprocess that exited with status 0
Outputs == TextsUpTo({"alice", NL}, MaxOutLen)

\* server URLs: with a scheme or without, the host a name, ".", ".." or
\* empty, with or without a port and a path
DeriveURLs ==
    {pre \o h \o port \o p :
        pre \in {<<"https", ":", "//">>, <<"//">>},
        h \in {<< >>, <<"example.com">>, <<"other.io">>, <<".">>, <<"..">>},
        port \in {<< >>, <<":", "5000">>},
        p \in {<< >>, <<"/", "login">>}}
    \cup {<<"example.com">>, <<"example.com", "/", "login">>, U_BAD}

PureInputs ==
    {[f |-> "runLastPassHelper", stdout |-> o] : o \in Outputs} \cup
    {[f |-> "domainInURL", u1 |-> a, u2 |-> b] : a \in DeriveURLs, b \in DeriveURLs}

helperVars == <<lpassInitialized, mutexOwner, store, pc, op, stage, arg, loc, calls,
                hist, nops, nstatus, nlogin, nfail, callers>>

InitPure ==
    /\ Start({}, {{}})
    /\ given \in PureInputs
    /\ result = NoResult

\* runLastPassHelper, lines 40-46, for a subprocess that exits with status 0
\* and has written given.stdout
TrimOutput ==
    /\ given.f = "runLastPassHelper"
    /\ result = NoResult
    /\ result' = [f |-> given.f, err |-> "nil", out |-> TrimRight(given.stdout)]
    /\ UNCHANGED <<helperVars, given>>

\* Get, lines 98-103 (as Add, lines 122-126, and Delete, lines 147-153): the
\* host of a server URL and the entry path of that host
Derived(serverURL) ==
    LET d == domainInURL(serverURL) IN
    [err |-> d.err, host |-> d.domain,
     id |-> IF d.err THEN << >> ELSE EntryPath(d.domain)]

DeriveBoth ==
    /\ given.f = "domainInURL"
    /\ result = NoResult
    /\ result' = [f |-> given.f, d1 |-> Derived(given.u1), d2 |-> Derived(given.u2)]
    /\ UNCHANGED <<helperVars, given>>

NextPure == TrimOutput \/ DeriveBoth

SpecPure == InitPure /\ [][NextPure]_vars

-----------------------------------------------------------------------------
(* Properties *)

\* the operation that finished last and the one that finished before it
Last == hist[Len(hist)]
Prev == hist[1]
Finished(o) == hist # << >> /\ Last.op = o
\* no operation is running: nothing has happened since Last returned
Quiet == \A t \in Threads : pc[t] \in {"idle", "off"}

Host(u) == domainInURL(u).domain
Parses(u) == ~domainInURL(u).err

SessionErrors == {"login failed", "not initialized"}
\* the session check failed in the k-th subprocess of cs
CheckFailedAt(cs, k) == cs[k].res \in SessionErrors
NoCheckFailed(cs) == \A k \in 1..Len(cs) : ~CheckFailedAt(cs, k)
\* the subprocesses of cs that are edit or add commands
Writes(cs) == SelectSeq(cs, LAMBDA c : c.cmd \in {"edit", "add"})
\* the Get inside an Add with subprocesses cs succeeded
GetSucceeded(cs) == \E k \in 1..Len(cs) : cs[k].cmd = "show --pass" /\ cs[k].res = "ok"

\* C1: an Add whose credential is not nil and whose URL parses, and whose
\* session checks all pass, runs exactly one of edit and add, on the entry
\* path: edit when its Get succeeded (the entry exists), add when it failed.
C1_AddEditsExistingAddsMissing ==
    (Finished("Add") /\ AddCheck(Last.arg) = "nil" /\ NoCheckFailed(Last.calls)) =>
        LET w == Writes(Last.calls) IN
        /\ Len(w) = 1
        /\ w[1].target = EntryPath(Host(Last.arg.ServerURL))
        /\ w[1].cmd = IF GetSucceeded(Last.calls) THEN "edit" ELSE "add"

\* errors of a Get that do not come from the helper or from what lpass holds
Outage == SessionErrors \cup {"tool: fault"}

\* C2: a Get that directly follows a successful Add(cred), for a URL with the
\* host of cred.ServerURL (a host that is not empty), returns cred's user
\* name and secret, unless lpass itself breaks down during the Get.
C2_GetAfterAddReturnsCreds ==
    (/\ Len(hist) = 2
     /\ Prev.added
     /\ Last.op = "Get" /\ Last.ret.err \notin Outage
     /\ Parses(Last.arg.ServerURL)
     /\ Host(Last.arg.ServerURL) = Host(Prev.arg.ServerURL)
     /\ Host(Prev.arg.ServerURL) # << >>) =>
        /\ Last.ret.err = "nil"
        /\ Last.ret.username = Prev.arg.Username
        /\ Last.ret.secret = Prev.arg.Secret

\* C3: when two successful Adds for one server URL (with a host) and
\* different secrets follow each other, the second one takes the update
\* path (edit, no add) and lpass holds at most one entry of that path.
C3_SecondAddUpdates ==
    (/\ Len(hist) = 2 /\ Quiet
     /\ Prev.added
     /\ Last.op = "Add" /\ Last.ret.err = "nil"
     /\ Last.arg.ServerURL = Prev.arg.ServerURL
     /\ Last.arg.Secret # Prev.arg.Secret
     /\ Host(Last.arg.ServerURL) # << >>) =>
        /\ \A k \in 1..Len(Last.calls) : Last.calls[k].cmd # "add"
        /\ \E k \in 1..Len(Last.calls) : Last.calls[k].cmd = "edit"
        /\ Cardinality(Lookup(store, EntryPath(Host(Last.arg.ServerURL)))) <= 1

\* C4 as claimed: in the whole run at most two status probes and one login
C4_TwoProbesOneLoginEver == nstatus <= 2 /\ nlogin <= 1

\* C4, amended: a session check runs at most two status probes and one
\* login; checks run one at a time and none runs once one has succeeded.
\* So after nfail failed checks at most 2 * (nfail + 1) probes and
\* nfail + 1 logins were spawned, and no thread is inside a check once the
\* session is initialized.
C4_ProbesPerSessionCheck ==
    /\ nstatus <= 2 * (nfail + 1)
    /\ nlogin <= nfail + 1
    /\ lpassInitialized => \A t \in Threads : pc[t] \notin {"status1", "login", "status2"}

\* two callers, one failed check, then a check with login that succeeded
C4_Witness ==
    /\ lpassInitialized /\ nfail = 1 /\ nstatus = 4 /\ nlogin = 2
    /\ \E t, u \in Threads : t # u /\ pc[t] = "run" /\ pc[u] \in {"lock", "run"}

\* C5 as claimed: a failed session check is the last subprocess of the
\* operation, which returns its error
C5_FailedCheckEndsOperation ==
    hist # << >> =>
        \A k \in 1..Len(Last.calls) :
            CheckFailedAt(Last.calls, k) =>
                k = Len(Last.calls) /\ Last.ret.err = Last.calls[k].res

\* C5, amended: a session check that fails inside Get, Delete or List, or
\* inside the edit/add call of Add, is the last subprocess of the operation,
\* which returns its error; one that fails inside the Get that Add runs
\* first is followed by the subprocesses of Add's own edit/add call.
C5_FailedCheckEndsOperationButAddsGet ==
    hist # << >> =>
        \A k \in 1..Len(Last.calls) :
            CheckFailedAt(Last.calls, k) =>
                IF Last.op = "Add" /\ Last.calls[k].stage \notin {"edit", "add"}
                THEN k < Len(Last.calls) /\ Last.calls[k + 1].stage \in {"edit", "add"}
                ELSE k = Len(Last.calls) /\ Last.ret.err = Last.calls[k].res

\* an Add whose session check failed in its Get and again in its own command
C5_Witness ==
    /\ Finished("Add")
    /\ \E j, k \in 1..Len(Last.calls) :
         /\ j < k
         /\ CheckFailedAt(Last.calls, j) /\ Last.calls[j].stage = "show_user"
         /\ CheckFailedAt(Last.calls, k) /\ Last.calls[k].stage \in {"edit", "add"}
         /\ Last.ret.err = Last.calls[k].res

\* Get or Delete with an empty server URL, Add with a nil credential
InvalidCall(h) ==
    \/ h.op \in {"Get", "Delete"} /\ h.arg.ServerURL = << >>
    \/ h.op = "Add" /\ h.arg.isNil

\* C6: Get and Delete with an empty server URL and Add with a nil credential
\* return their error without any subprocess, whatever the session flag is,
\* and leave the flag as it was.
C6_InvalidCallSpawnsNothing ==
    (hist # << >> /\ InvalidCall(Last)) =>
        /\ Last.ret = ErrRet(IF Last.op = "Add" THEN "missing credentials"
                             ELSE "missing server url")
        /\ Last.calls = << >>
        /\ Last.init1 = Last.init0

\* a Get with an empty URL in the Initialized state
C6_Witness ==
    /\ Finished("Get") /\ Last.arg.ServerURL = << >>
    /\ Last.init0 /\ lpassInitialized
    /\ Last.ret.err = "missing server url"

\* C7: Add with a credential whose server URL is empty fails with
\* "missing server url" and runs neither edit nor add.
C7_AddRejectsEmptyURL ==
    (Finished("Add") /\ ~Last.arg.isNil /\ Last.arg.ServerURL = << >>) =>
        /\ Last.ret.err = "missing server url"
        /\ Writes(Last.calls) = << >>

EntriesInFolder == InFolder(store, LASTPASS_FOLDER)
\* the entry of the folder with URL u that ls prints last
LastWithURL(u) ==
    CHOOSE e \in EntriesInFolder :
        e.url = u /\ \A f \in EntriesInFolder : f.url = u => f.id <= e.id
AllOk(cs) == \A k \in 1..Len(cs) : cs[k].res = "ok"

\* the result of a List is the map from the URLs of the folder's entries to
\* the user name of the last entry with that URL
ListsTheFolder(r) ==
    /\ r.err = "nil" /\ r.hasResp
    /\ DOMAIN r.resp = {e.url : e \in EntriesInFolder}
    /\ \A u \in DOMAIN r.resp : r.resp[u] = LastWithURL(u).user

\* C8: a List all of whose subprocesses succeed returns the map from the
\* distinct URLs of the folder's entries to the user name of the last entry
\* with that URL; on an empty folder the ls output has no line to look up,
\* so a List whose ls succeeds runs no show and returns the empty map.
C8_ListKeysAreTheURLs ==
    (Finished("List") /\ Quiet) =>
        /\ AllOk(Last.calls) => ListsTheFolder(Last.ret)
        /\ (/\ EntriesInFolder = {}
            /\ \E k \in 1..Len(Last.calls) :
                 Last.calls[k].cmd = "ls" /\ Last.calls[k].res = "ok") =>
               /\ ListsTheFolder(Last.ret)
               /\ Last.calls[Len(Last.calls)].cmd = "ls"

\* C9: in a List, a subprocess that fails (other than the first status probe,
\* which leads to the login) is the last one List runs, and List returns its
\* error and no map.
C9_ListFailsFast ==
    Finished("List") =>
        /\ \A k \in 1..Len(Last.calls) :
              Last.calls[k].res \notin {"ok", "fail"} =>
                  k = Len(Last.calls) /\ Last.ret = ErrRet(Last.calls[k].res)
        /\ Last.ret.err # "nil" => ~Last.ret.hasResp /\ Last.ret.resp = EmptyMap

\* a folder of two entries: the user name lookup of the first one fails and
\* the second one is never looked up
C9_Witness ==
    /\ Finished("List") /\ Quiet
    /\ Cardinality(EntriesInFolder) = 2
    /\ Last.calls[Len(Last.calls)].cmd = "show --user"
    /\ Last.ret.err = "tool: fault"
    /\ Cardinality({k \in 1..Len(Last.calls) : Last.calls[k].cmd = "show --url"}) = 1

\* C10: a Get with a usable URL runs show --user and then show --pass on the
\* entry path; it succeeds exactly when both succeed and then returns what
\* the process runner returned for them; else it returns the error of the
\* failed subprocess with an empty user name and secret, and after a failed
\* show --user it runs no show --pass.
C10_GetNeedsBothLookups ==
    (Finished("Get") /\ GetCheck(Last.arg.ServerURL) = "nil") =>
        LET cs == Last.calls
            U == {k \in 1..Len(cs) : cs[k].cmd = "show --user"}
            P == {k \in 1..Len(cs) : cs[k].cmd = "show --pass"}
        IN  /\ \A k \in U \cup P : cs[k].target = EntryPath(Host(Last.arg.ServerURL))
            /\ Cardinality(U) <= 1 /\ Cardinality(P) <= 1
            /\ \A u \in U : \A p \in P : u < p
            /\ Last.ret.err = "nil" <=>
                   (\E u \in U : cs[u].res = "ok") /\ (\E p \in P : cs[p].res = "ok")
            /\ Last.ret.err = "nil" =>
                   /\ \A u \in U : Last.ret.username = cs[u].out
                   /\ \A p \in P : Last.ret.secret = cs[p].out
            /\ Last.ret.err # "nil" =>
                   /\ Last.ret.username = << >> /\ Last.ret.secret = << >>
                   /\ Last.ret.err = cs[Len(cs)].res
            /\ (\E u \in U : cs[u].res # "ok") => P = {}

\* a Get that found the entry
C10_Witness ==
    /\ Finished("Get")
    /\ Last.ret = Ret("nil", <<"alice">>, <<"s3cr3t">>, FALSE, EmptyMap)
    /\ Len(Last.calls) >= 2

\* the subprocesses of cs that are not part of a session check
StoreCmds(cs) == {k \in 1..Len(cs) : cs[k].cmd \notin {"status", "login"}}

\* C11: a Delete with a non-empty URL that parses runs, besides the session
\* check, at most one subprocess: an rm on the entry path of the URL's host,
\* with nothing before it and nothing after it, and exactly one when its
\* session check passes; it returns the result of that rm: nil when it
\* succeeded and else its error, that of a missing entry included.
C11_DeleteRunsOneRm ==
    (Finished("Delete") /\ DeleteCheck(Last.arg.ServerURL) = "nil") =>
        LET cs == Last.calls
            S == StoreCmds(cs)
        IN  /\ Cardinality(S) <= 1
            /\ NoCheckFailed(cs) => Cardinality(S) = 1
            /\ \A k \in S :
                 /\ cs[k].cmd = "rm" /\ k = Len(cs)
                 /\ cs[k].target = EntryPath(Host(Last.arg.ServerURL))
                 /\ Last.ret = ErrRet(IF cs[k].res = "ok" THEN "nil" ELSE cs[k].res)
            /\ S = {} => Last.ret.err \in SessionErrors

\* a Delete of an entry lpass does not hold
C11_Witness ==
    /\ Finished("Delete") /\ Quiet
    /\ Last.arg.ServerURL = U_HOST
    /\ Lookup(store, EntryPath(Host(U_HOST))) = {}
    /\ Last.calls # << >> /\ Last.calls[Len(Last.calls)].cmd = "rm"
    /\ Last.ret.err = "tool: not found"

\* the entry paths of two server URLs that both parse have been derived
BothDerived == given.f = "domainInURL" /\ result.f = "domainInURL"
                   /\ ~result.d1.err /\ ~result.d2.err

\* C12: two server URLs that parse have the same entry path exactly when
\* they have the same host.
C12_EntryPathInjectiveOnHosts ==
    BothDerived => (result.d1.id = result.d2.id <=> result.d1.host = result.d2.host)

\* target names an entry strictly under the folder: a path that begins with
\* the folder and a slash, or the id of an entry of the folder
UnderFolder(target) ==
    \/ /\ Len(target) > Len(LASTPASS_FOLDER) + 1
       /\ SubSeq(target, 1, Len(LASTPASS_FOLDER) + 1) = LASTPASS_FOLDER \o <<"/">>
    \/ \E e \in EntriesInFolder : IdStr(e.id) = target
EntryCmds == {"show --user", "show --pass", "show --url", "edit", "add", "rm"}
\* the subprocesses of cs that read or write an entry stay under the folder
Isolated(cs) == \A k \in 1..Len(cs) : cs[k].cmd \in EntryCmds => UnderFolder(cs[k].target)

\* C13: every show, edit, add and rm subprocess of a running operation, and
\* of the operation that returned last, targets an entry strictly under the
\* folder 'Docker Credentials'.
C13_TargetsStayUnderFolder ==
    /\ \A t \in Threads : Isolated(calls[t])
    /\ (hist # << >> /\ Quiet) => Isolated(Last.calls)

\* the k-th subprocess of cs failed, and is not a first status probe, whose
\* failure leads to the login
FailedAt(cs, k) == cs[k].res \notin {"ok", "fail"}

\* C14 as claimed: a failed subprocess is the last one of its operation,
\* which returns an error
C14_NoFailureSwallowed ==
    hist # << >> =>
        \A k \in 1..Len(Last.calls) :
            FailedAt(Last.calls, k) => k = Len(Last.calls) /\ Last.ret.err # "nil"

\* C14, amended: a failed subprocess of Get, Delete or List, or of the
\* edit/add call of Add, is the last one of its operation, which returns the
\* error of that subprocess; a failed subprocess of the Get that Add runs
\* first is followed by the subprocesses of Add's own edit/add call, and Add
\* returns what that call returns.
C14_FailureReturnedButAddsGet ==
    hist # << >> =>
        LET cs == Last.calls IN
        \A k \in 1..Len(cs) :
            FailedAt(cs, k) =>
                IF Last.op = "Add" /\ cs[k].stage \in {"show_user", "show_pass"}
                THEN /\ k < Len(cs) /\ cs[k + 1].stage \in {"edit", "add"}
                     /\ Last.ret.err = (IF cs[Len(cs)].res = "ok" THEN "nil"
                                        ELSE cs[Len(cs)].res)
                ELSE k = Len(cs) /\ Last.ret.err = cs[k].res

\* an Add whose user name lookup broke down and which returned nil
C14_Witness ==
    /\ Finished("Add")
    /\ \E k \in 1..Len(Last.calls) :
         Last.calls[k].cmd = "show --user" /\ Last.calls[k].res = "tool: fault"
    /\ Last.ret.err = "nil"

\* in this step the login of thread t exits with a failure
LoginFails(t) == pc[t] = "login" /\ pc'[t] \notin {"login", "status2"}
\* the subprocesses of thread t's operation after this step
CallsAfter(t) == IF pc'[t] = "idle" THEN hist'[Len(hist')].calls ELSE calls'[t]

\* C15: the step in which a login fails spawns no status probe, records the
\* login-failed error as the result of the check, releases the guard and
\* leaves the session flag false; and a session check that finds the flag
\* false starts with the first status probe.
C15_LoginFailureLeavesUninitialized ==
    [][\A t \in Threads :
          /\ LoginFails(t) =>
                /\ nstatus' = nstatus
                /\ CallsAfter(t)[Len(CallsAfter(t))].cmd = "login"
                /\ CallsAfter(t)[Len(CallsAfter(t))].res = "login failed"
                /\ mutexOwner = t /\ mutexOwner' = NoThread
                /\ ~lpassInitialized'
          /\ (pc[t] = "locked" /\ pc'[t] # "locked" /\ ~lpassInitialized) =>
                /\ pc'[t] = "status1"
                /\ nstatus' = nstatus + 1]_vars

\* an operation failed at the login and another session check has started
\* its first status probe
C15_Witness ==
    /\ hist # << >> /\ Last.ret.err = "login failed"
    /\ ~lpassInitialized
    /\ \E t \in Threads : pc[t] = "status1" /\ mutexOwner = t /\ Len(calls[t]) = 1

\* in this step the second status probe of thread t exits
ReprobeExits(t) == pc[t] = "status2" /\ pc'[t] # "status2"
\* the second-to-last and the last subprocess of thread t after this step
\* are the probe that exited and what was spawned after it
ProbeAfter(t) == CallsAfter(t)[Len(CallsAfter(t)) - 1]

\* C16: the session flag starts false and never goes back from true to
\* false; it becomes true only in the step in which the second status
\* probe of the thread that holds the guard exits with success; when that
\* probe fails the check returns the not-initialized error and the flag
\* stays false.
C16_FlagMonotone ==
    /\ ~lpassInitialized
    /\ [][/\ lpassInitialized => lpassInitialized'
          /\ (~lpassInitialized /\ lpassInitialized') =>
                \E t \in Threads :
                    /\ ReprobeExits(t) /\ mutexOwner = t
                    /\ ProbeAfter(t).cmd = "status" /\ ProbeAfter(t).res = "ok"
          /\ \A t \in Threads :
                (ReprobeExits(t) /\ ~lpassInitialized') =>
                    /\ CallsAfter(t)[Len(CallsAfter(t))].cmd = "status"
                    /\ CallsAfter(t)[Len(CallsAfter(t))].res = "not initialized"]_vars

\* the flag was set during the operation that returned last and another
\* operation has started a store command without a new session check
C16_Witness ==
    /\ lpassInitialized
    /\ hist # << >> /\ ~Last.init0 /\ Last.init1
    /\ \E t \in Threads : pc[t] = "run" /\ Len(calls[t]) = 1

StoreCmdNames == {"show --user", "show --pass", "show --url", "edit", "add", "rm", "ls"}
\* thread t has a store command in flight
InStoreCmd(t) ==
    /\ pc[t] = "run"
    /\ calls[t][Len(calls[t])].cmd \in StoreCmdNames
    /\ calls[t][Len(calls[t])].res = "run"

\* C17: a show, edit, add, rm or ls subprocess is in flight only when the
\* session flag is true, and a step that starts one ends with the flag true.
C17_NoStoreCmdBeforeSession ==
    [][\A t \in Threads :
          /\ InStoreCmd(t) => lpassInitialized
          /\ (pc[t] # "run" /\ pc'[t] = "run") =>
                /\ lpassInitialized'
                /\ calls'[t][Len(calls'[t])].cmd \in StoreCmdNames]_vars

\* an ls is in flight after the session check of its own operation
C17_Witness ==
    \E t \in Threads :
        /\ InStoreCmd(t) /\ calls[t][Len(calls[t])].cmd = "ls"
        /\ Len(calls[t]) >= 3 /\ calls[t][1].cmd = "status"

\* thread t has a status probe or a login in flight
InProbe(t) == pc[t] \in {"status1", "login", "status2"}

\* C18 as claimed: at most one thread is in a status probe or login, and no
\* store subprocess is in flight while the guard is held
C18_NoStoreCmdWhileGuardHeld ==
    /\ Cardinality({t \in Threads : InProbe(t)}) <= 1
    /\ \A t \in Threads : InStoreCmd(t) => mutexOwner = NoThread

\* C18, amended: at most one thread is in a status probe or login, and it
\* holds the guard; a thread with a store subprocess in flight does not hold
\* the guard, and while one is in flight another thread holds the guard at
\* most between its Lock() and its test of the flag, with no probe or login
\* in flight.
C18_GuardSerializesTheCheck ==
    /\ Cardinality({t \in Threads : InProbe(t)}) <= 1
    /\ \A t \in Threads : InProbe(t) => mutexOwner = t
    /\ \A t \in Threads :
         InStoreCmd(t) =>
             /\ mutexOwner # t
             /\ \A u \in Threads : ~InProbe(u)
             /\ mutexOwner # NoThread => pc[mutexOwner] = "locked" /\ lpassInitialized

\* the store subprocesses of two operations are in flight at the same time
C18_Witness ==
    /\ lpassInitialized
    /\ mutexOwner = NoThread
    /\ \A t \in Threads : InStoreCmd(t)

\* s without its last token when that is a line terminator
DropOneNL(s) ==
    IF s # << >> /\ s[Len(s)] = NL THEN SubSeq(s, 1, Len(s) - 1) ELSE s

\* C19: for a subprocess that succeeded the process runner returns its
\* standard output without one trailing line terminator: one of k >= 1 is
\* removed, an output that does not end in one is returned as it is.
C19_OneTrailingNewlineRemoved ==
    (given.f = "runLastPassHelper" /\ result.f = "runLastPassHelper") =>
        result.err = "nil" /\ result.out = DropOneNL(given.stdout)

\* thread t is in a public operation
Running(t) == pc[t] \notin {"idle", "off"}

\* C20: the guard is held only by a thread inside the session check, and
\* every thread that is in a public operation returns from it.
C20_EveryOperationReturns ==
    /\ [](\A t \in Threads :
            mutexOwner = t => pc[t] \in {"locked", "status1", "login", "status2"})
    /\ \A t \in Threads : Running(t) ~> ~Running(t)

\* both operations of the run have returned, their session checks failed at
\* the login and at the second probe, and the guard is free
C20_Witness ==
    /\ Quiet /\ nops = MaxOps /\ Len(hist) = 2
    /\ nfail >= 2 /\ nlogin >= 1
    /\ Last.ret.err \in SessionErrors
    /\ mutexOwner = NoThread

====
